---------------------------- MODULE Spec2Model ----------------------------
(***************************************************************************)
(* A model of the luaqrcode glue scripts:                                  *)
(*   matrix_to_image.py   lua_qr_to_matrix, matrix_to_image,               *)
(*                        test_qr_generation                               *)
(*   qr_decoder.py        decode_qr_image, main                            *)
(*   txt_to_qr_image.py   run_command, test_different_sizes                *)
(* Every function is a small state machine over its own variables; one     *)
(* specification per function keeps the others idle.                       *)
(***************************************************************************)
EXTENDS Integers, Sequences, FiniteSets, TLC

VARIABLES
    \* ---- matrix_to_image(matrix, filename, module_size, border)
    mi_pc,          \* "entry" | "draw" | "save" | "returned" | "raised" | "idle"
    matrix,         \* the argument: a sequence of rows, each a sequence of integers
    module_size,    \* the argument, >= 1
    border,         \* the argument, >= 0
    img,            \* <<>> before Image.new, else <<[size, black]>>: the in-memory image
    mi_file,        \* <<>> or <<image>>: the content of the file `filename`
    mi_sink,        \* "untried" | "ok" | "failed": what img.save met
    mi_ret,         \* "none" | "True" | "False": the value returned
    mi_exc,         \* "none" | "IndexError" | "OSError": the exception raised to the caller
    \* ---- lua_qr_to_matrix(text), one entry per call in progress
    script_file,    \* <<>> or <<content>>: the file temp_qr_gen.lua, shared by all calls
    lq_pc,          \* call -> "entry" | "run" | "parse" | "finally" | "returned" | "raised"
    lq_text,        \* call -> the text argument
    lq_written,     \* call -> whether this call wrote the whole script
    lq_exec,        \* call -> <<>> or <<content>>: the script its lua process executed
    lq_stdout,      \* call -> result.stdout, a sequence of lines
    lq_ret,         \* call -> [kind, value]: "pending" | "None" | "matrix"
    \* ---- qr_decoder.py main()
    dm_pc,          \* "expand" | "loop" | "returned" | "raised" | "idle"
    dm_images,      \* args.images: paths and glob patterns
    dm_output,      \* whether --output was given
    dm_fs,          \* path -> [kind, data]: what the file system holds at the path
    image_files,    \* the expanded list of paths
    dm_i,           \* how many entries of image_files the loop has handled
    all_decoded_text, \* the texts decoded so far
    dm_diag,        \* the diagnostics printed, each <<message, path>>
    dm_out_file,    \* <<>> or <<lines>>: the --output file
    dm_ret,         \* -1 before the return, else the status returned
    \* ---- txt_to_qr_image.py test_different_sizes()
    sw_pc,          \* "generate" | "loop" | "returned" | "idle"
    sw_runs,        \* one record per size tried: [size, converted, payloads, report]
    \* ---- matrix_to_image.py test_qr_generation(text)
    tq_pc,          \* "generate" | "render" | "decode" | "returned" | "raised" | "idle"
    tq_text,        \* the argument, a sequence of characters
    tq_stale,       \* whether a decodable image of an earlier run lies at the decoder's path
    tq_matrix,      \* what lua_qr_to_matrix returned
    tq_written,     \* <<>> or <<[name, image]>>: the file matrix_to_image wrote
    tq_decoded,     \* <<>> or <<[name, source]>>: the path handed to the decoder, and
                    \* what lay there: "rendered" | "stale" | "missing"
    tq_ret          \* "none" | "True" | "False"

mi_vars == <<mi_pc, matrix, module_size, border, img, mi_file, mi_sink, mi_ret, mi_exc>>
lq_vars == <<script_file, lq_pc, lq_text, lq_written, lq_exec, lq_stdout, lq_ret>>
dm_vars == <<dm_pc, dm_images, dm_output, dm_fs, image_files, dm_i, all_decoded_text,
             dm_diag, dm_out_file, dm_ret>>
sw_vars == <<sw_pc, sw_runs>>
tq_vars == <<tq_pc, tq_text, tq_stale, tq_matrix, tq_written, tq_decoded, tq_ret>>

vars == <<mi_vars, lq_vars, dm_vars, sw_vars, tq_vars>>

-----------------------------------------------------------------------------
(* Bounds of the model. *)
MaxN == 2
MaxModule == 2
MaxBorder == 1
MaxLines == 5
NumCallers == 2
MaxArgs == 2
MaxTextLen == 4

\* Cell values: the sign decides the colour; 0 is the boundary of `> 0`.
Vals == {-1, 0, 1}
Signs == {-1, 1}

-----------------------------------------------------------------------------
(* matrix_to_image *)

\* total_size * module_size (lines 117-121)
ImgSizeNoFarBorder(size, b, m) == (size + b) * m
ImgSize(size, b, m) == (size + (2 * b)) * m

\* Image.new('RGB', (img_size, img_size), 'white'): no pixel is black
NewImage(img_size) == [size |-> img_size, black |-> {}]

\* draw.rectangle([x0, y0, x1, y1], fill='black'): both corners inclusive,
\* clipped to the image
Rectangle(image, x0, y0, x1, y1) ==
    [image EXCEPT !.black = @ \cup
        { p \in (x0 .. x1) \X (y0 .. y1) :
            p[1] \in 0 .. (image.size - 1) /\ p[2] \in 0 .. (image.size - 1) }]

\* `matrix[y][x] > 0` (line 132)
IsDarkNonNegative(v) == v >= 0
IsDark(v) == v > 0

\* The nested loops of lines 130-140, cell k = y * size + x in row-major
\* order.  matrix[y][x] raises IndexError when row y has no column x; the
\* loop then stops with what was painted so far.
RECURSIVE DrawLoop(_, _, _, _, _)
DrawLoop(mat, m, b, k, image) ==
    LET size == Len(mat)
        y == k \div size
        x == k % size
        img_x == (x + b) * m
        img_y == (y + b) * m
    IN  IF k = size * size
        THEN [image |-> image, raised |-> FALSE]
        ELSE IF x + 1 > Len(mat[y + 1])
        THEN [image |-> image, raised |-> TRUE]
        ELSE IF IsDark(mat[y + 1][x + 1])
        THEN DrawLoop(mat, m, b, k + 1,
                      Rectangle(image, img_x, img_y, img_x + m - 1, img_y + m - 1))
        ELSE DrawLoop(mat, m, b, k + 1, image)

\* lines 113-127: `if not matrix` returns False; else the white canvas is made
MI_Validate ==
    /\ mi_pc = "entry"
    /\ IF matrix = <<>>
       THEN /\ mi_ret' = "False"
            /\ mi_pc' = "returned"
            /\ img' = img
       ELSE /\ img' = <<NewImage(ImgSize(Len(matrix), border, module_size))>>
            /\ mi_pc' = "draw"
            /\ mi_ret' = mi_ret
    /\ UNCHANGED <<matrix, module_size, border, mi_file, mi_sink, mi_exc>>
    /\ UNCHANGED <<lq_vars, dm_vars, sw_vars, tq_vars>>

\* lines 129-140
MI_Draw ==
    /\ mi_pc = "draw"
    /\ LET r == DrawLoop(matrix, module_size, border, 0, img[1])
       IN  /\ img' = <<r.image>>
           /\ IF r.raised
              THEN mi_pc' = "raised" /\ mi_exc' = "IndexError"
              ELSE mi_pc' = "save" /\ mi_exc' = mi_exc
    /\ UNCHANGED <<matrix, module_size, border, mi_file, mi_sink, mi_ret>>
    /\ UNCHANGED <<lq_vars, dm_vars, sw_vars, tq_vars>>

\* lines 142-146: img.save(filename) either writes the file or raises; nothing
\* catches the exception
MI_Save ==
    /\ mi_pc = "save"
    /\ \E ok \in BOOLEAN :
        IF ok
        THEN /\ mi_file' = img
             /\ mi_sink' = "ok"
             /\ mi_ret' = "True"
             /\ mi_pc' = "returned"
             /\ mi_exc' = mi_exc
        ELSE /\ mi_sink' = "failed"
             /\ mi_exc' = "OSError"
             /\ mi_pc' = "raised"
             /\ UNCHANGED <<mi_file, mi_ret>>
    /\ UNCHANGED <<matrix, module_size, border, img>>
    /\ UNCHANGED <<lq_vars, dm_vars, sw_vars, tq_vars>>

\* The matrices the caller may pass: the empty one, every N x N one over Vals,
\* and N x N ones over Signs with one row made one cell shorter or longer.
SquareMatrices(n) == [1 .. n -> [1 .. n -> Vals]]
SignMatrices(n) == [1 .. n -> [1 .. n -> Signs]]

Shorter(mat, r) == [mat EXCEPT ![r] = SubSeq(@, 1, Len(@) - 1)]
Longer(mat, r, v) == [mat EXCEPT ![r] = Append(@, v)]

Matrices ==
    UNION { SquareMatrices(n)
            \cup { Shorter(mat, r) : mat \in SignMatrices(n), r \in 1 .. n }
            \cup { Longer(mat, r, v) : mat \in SignMatrices(n), r \in 1 .. n, v \in Vals }
          : n \in 0 .. MaxN }

MI_Init ==
    /\ mi_pc = "entry"
    /\ matrix \in Matrices
    /\ module_size \in 1 .. MaxModule
    /\ border \in 0 .. MaxBorder
    /\ img = <<>>
    /\ mi_file = <<>>
    /\ mi_sink = "untried"
    /\ mi_ret = "none"
    /\ mi_exc = "none"

\* matrix_to_image is not running
MI_Idle ==
    /\ mi_pc = "idle"
    /\ matrix = <<>>
    /\ module_size = 1
    /\ border = 0
    /\ img = <<>>
    /\ mi_file = <<>>
    /\ mi_sink = "untried"
    /\ mi_ret = "none"
    /\ mi_exc = "none"

-----------------------------------------------------------------------------
(* Properties of matrix_to_image *)

Range(s) == { s[i] : i \in DOMAIN s }

IsSquare(mat) == Len(mat) >= 1 /\ \A r \in DOMAIN mat : Len(mat[r]) = Len(mat)
Malformed(mat) == mat = <<>> \/ \E r \in DOMAIN mat : Len(mat[r]) # Len(mat)

\* the cell (column cx, row cy), 0-based, is inside the matrix and > 0
CellIsDark(cx, cy) ==
    /\ cx \in 0 .. (Len(matrix) - 1)
    /\ cy \in 0 .. (Len(matrix) - 1)
    /\ matrix[cy + 1][cx + 1] > 0

PixelsFollowCells(image) ==
    /\ image.black \subseteq (0 .. (image.size - 1)) \X (0 .. (image.size - 1))
    /\ \A px \in 0 .. (image.size - 1), py \in 0 .. (image.size - 1) :
          (<<px, py>> \in image.black)
              <=> CellIsDark((px \div module_size) - border, (py \div module_size) - border)

\* C1: once the drawing loop of an N x N matrix has finished, a pixel (px, py)
\* of the image (in memory and as saved) is black if and only if the cell
\* (px div module_size - border, py div module_size - border) is inside the
\* matrix and has a value > 0; every other pixel is white.
C1_ModuleAlignment ==
    (mi_pc \in {"save", "returned", "raised"} /\ IsSquare(matrix))
        => \A image \in Range(img) \cup Range(mi_file) : PixelsFollowCells(image)

\* a 2 x 2 matrix with a dark, a zero and a negative cell was drawn with
\* modules of 2 pixels behind a border and saved
C1_Witness ==
    /\ mi_pc = "returned"
    /\ mi_file # <<>>
    /\ matrix = << <<1, 0>>, <<-1, 1>> >>
    /\ module_size = 2
    /\ border = 1
    /\ <<2, 2>> \in mi_file[1].black
    /\ <<4, 2>> \notin mi_file[1].black

\* C2: the image matrix_to_image creates for an N x N matrix is
\* (N + 2 * border) * module_size pixels wide and high.
C2_ImageDimensions ==
    IsSquare(matrix)
        => \A image \in Range(img) \cup Range(mi_file) :
              image.size = (Len(matrix) + 2 * border) * module_size

\* a 2 x 2 matrix with modules of 2 pixels and a border of 1 was saved as an
\* image of 8 x 8 pixels
C2_Witness ==
    /\ mi_file # <<>>
    /\ IsSquare(matrix)
    /\ Len(matrix) = 2
    /\ module_size = 2
    /\ border = 1
    /\ mi_file[1].size = 8

\* C3: a malformed matrix (empty, or with a row whose length is not the number
\* of rows) is rejected: the call never returns True for it, and no image file
\* is written.  (Any failure, a False or an exception, counts as a rejection.)
C3_RejectsMalformed ==
    Malformed(matrix) => (mi_file = <<>> /\ mi_ret # "True")

\* C7: a failed save is reported by the return value: the call returns False
\* and raises nothing.
C7_SinkFailureReturned ==
    mi_sink = "failed"
        => /\ mi_exc = "none"
           /\ mi_pc \in {"returned", "raised"} => mi_ret = "False"

-----------------------------------------------------------------------------
(* lua_qr_to_matrix *)

\* A line of the generator's output is the sequence of its whitespace-separated
\* tokens; a token is a string.
START == <<"MATRIX_START">>
END == <<"MATRIX_END">>

IntTokens == {"-1", "0", "1", "2", "3"}

\* int(token)
IntOf(tok) ==
    CASE tok = "-1" -> -1
      [] tok = "0" -> 0
      [] tok = "1" -> 1
      [] tok = "2" -> 2
      [] tok = "3" -> 3

\* int(line) succeeds on a line that is one integer token (line 82)
IsIntLine(line) == Len(line) = 1 /\ line[1] \in IntTokens

\* [int(x) for x in line.split()] succeeds when every token is an integer
IsRowLine(line) == \A j \in DOMAIN line : line[j] \in IntTokens
RowOf(line) == [j \in DOMAIN line |-> IntOf(line[j])]

\* result.stdout.strip().split('\n') (line 65): blank lines at both ends are
\* stripped, and what is left is at least one (possibly empty) line
RECURSIVE DropLeadingBlank(_)
DropLeadingBlank(out) ==
    IF out # <<>> /\ Head(out) = <<>> THEN DropLeadingBlank(Tail(out)) ELSE out
RECURSIVE DropTrailingBlank(_)
DropTrailingBlank(out) ==
    IF out # <<>> /\ out[Len(out)] = <<>>
    THEN DropTrailingBlank(SubSeq(out, 1, Len(out) - 1))
    ELSE out
StripSplit(out) ==
    LET s == DropTrailingBlank(DropLeadingBlank(out))
    IN  IF s = <<>> THEN << <<>> >> ELSE s

\* The search loop of lines 67-75 from line i (0-based) on, with the indexes
\* found so far; it stops at the first MATRIX_END.
RECURSIVE FindSentinels(_, _, _, _)
FindSentinels(lines, i, matrix_start, matrix_end) ==
    IF i = Len(lines)
    THEN [matrix_start |-> matrix_start, matrix_end |-> matrix_end]
    ELSE IF lines[i + 1] = START
    THEN FindSentinels(lines, i + 1, i, matrix_end)
    ELSE IF lines[i + 1] = END
    THEN [matrix_start |-> matrix_start, matrix_end |-> i]
    ELSE FindSentinels(lines, i + 1, matrix_start, matrix_end)

RetNone == [kind |-> "None", value |-> <<>>]
RetPending == [kind |-> "pending", value |-> <<>>]
RetMatrix(m) == [kind |-> "matrix", value |-> m]

\* lines 64-94: what the call returns for a zero exit status and this stdout;
\* a ValueError of int() is caught by `except Exception` and gives None
ParseOutput(out) ==
    LET lines == StripSplit(out)
        f == FindSentinels(lines, 0, -1, -1)
        rows == (f.matrix_start + 3) .. f.matrix_end
    IN  IF f.matrix_start = -1 \/ f.matrix_end = -1
        THEN RetNone
        ELSE IF ~IsIntLine(lines[f.matrix_start + 2])
        THEN RetNone
        ELSE IF \E i \in rows : ~IsRowLine(lines[i])
        THEN RetNone
        ELSE RetMatrix([k \in 1 .. (f.matrix_end - f.matrix_start - 2)
                           |-> RowOf(lines[f.matrix_start + 2 + k])])

\* os.remove('temp_qr_gen.lua') (line 99); a missing file raises, and the bare
\* except swallows it
OsRemoveOtherName(file) == file
OsRemove(file) == <<>>

\* The texts callers pass, and what qrencode.lua prints for each.
Texts == {"a", "b"}
GenOutput(content) ==
    IF content = "a"
    THEN <<START, <<"1">>, <<"1">>, END>>
    ELSE <<START, <<"1">>, <<"-1">>, END>>

\* The lines an arbitrary generator may print.
LineAlphabet == {START, END, <<"1">>, <<"2">>, <<"1", "-1">>, <<"x">>, <<>>}
Stdouts == UNION { [1 .. n -> LineAlphabet] : n \in 0 .. MaxLines }

\* lines 51-53: open(..., 'w') truncates or creates the file, f.write fills
\* it.  Either may raise, outside the try block: the exception reaches the
\* caller and nothing is cleaned up.  `outcomes` are the outcomes the file
\* system of the run allows.
WriteOutcomes == {"ok", "open_fails", "write_fails"}
LQ_WriteScript(c, outcomes) ==
    /\ lq_pc[c] = "entry"
    /\ \E outcome \in outcomes :
        CASE outcome = "ok" ->
                /\ script_file' = <<lq_text[c]>>
                /\ lq_written' = [lq_written EXCEPT ![c] = TRUE]
                /\ lq_pc' = [lq_pc EXCEPT ![c] = "run"]
          [] outcome = "open_fails" ->
                /\ lq_pc' = [lq_pc EXCEPT ![c] = "raised"]
                /\ UNCHANGED <<script_file, lq_written>>
          [] outcome = "write_fails" ->
                /\ script_file' = <<"">>
                /\ lq_pc' = [lq_pc EXCEPT ![c] = "raised"]
                /\ UNCHANGED lq_written
    /\ UNCHANGED <<lq_text, lq_exec, lq_stdout, lq_ret>>
    /\ UNCHANGED <<mi_vars, dm_vars, sw_vars, tq_vars>>

\* lines 55-62: subprocess.run(['lua', 'temp_qr_gen.lua']) and the test of
\* the exit status.  lua executes whatever the file holds now.  With
\* `faithful` the generator is qrencode.lua itself; otherwise it may print
\* any lines.
LQ_RunLua(c, faithful) ==
    /\ lq_pc[c] = "run"
    /\ \/ \* lua cannot be started: the exception is caught, None is returned
          /\ lq_ret' = [lq_ret EXCEPT ![c] = RetNone]
          /\ lq_pc' = [lq_pc EXCEPT ![c] = "finally"]
          /\ UNCHANGED <<lq_exec, lq_stdout>>
       \/ \* lua exits non-zero: no script, a broken script, or qrencode failed
          /\ lq_exec' = [lq_exec EXCEPT ![c] = script_file]
          /\ lq_ret' = [lq_ret EXCEPT ![c] = RetNone]
          /\ lq_pc' = [lq_pc EXCEPT ![c] = "finally"]
          /\ UNCHANGED lq_stdout
       \/ \* lua exits 0
          /\ script_file # <<>>
          /\ lq_exec' = [lq_exec EXCEPT ![c] = script_file]
          /\ \E out \in (IF faithful THEN {GenOutput(script_file[1])} ELSE Stdouts) :
                lq_stdout' = [lq_stdout EXCEPT ![c] = out]
          /\ lq_pc' = [lq_pc EXCEPT ![c] = "parse"]
          /\ UNCHANGED lq_ret
    /\ UNCHANGED <<script_file, lq_text, lq_written>>
    /\ UNCHANGED <<mi_vars, dm_vars, sw_vars, tq_vars>>

\* lines 64-94
LQ_Parse(c) ==
    /\ lq_pc[c] = "parse"
    /\ lq_ret' = [lq_ret EXCEPT ![c] = ParseOutput(lq_stdout[c])]
    /\ lq_pc' = [lq_pc EXCEPT ![c] = "finally"]
    /\ UNCHANGED <<script_file, lq_text, lq_written, lq_exec, lq_stdout>>
    /\ UNCHANGED <<mi_vars, dm_vars, sw_vars, tq_vars>>

\* lines 95-101, then the pending return
LQ_Finally(c) ==
    /\ lq_pc[c] = "finally"
    /\ script_file' = OsRemove(script_file)
    /\ lq_pc' = [lq_pc EXCEPT ![c] = "returned"]
    /\ UNCHANGED <<lq_text, lq_written, lq_exec, lq_stdout, lq_ret>>
    /\ UNCHANGED <<mi_vars, dm_vars, sw_vars, tq_vars>>

LQ_Init(callers, texts) ==
    /\ script_file = <<>>
    /\ lq_pc = [c \in callers |-> "entry"]
    /\ lq_text \in [callers -> texts]
    /\ lq_written = [c \in callers |-> FALSE]
    /\ lq_exec = [c \in callers |-> <<>>]
    /\ lq_stdout = [c \in callers |-> <<>>]
    /\ lq_ret = [c \in callers |-> RetPending]

\* no call of lua_qr_to_matrix is in progress
LQ_Idle == LQ_Init({}, Texts)

-----------------------------------------------------------------------------
(* Properties of lua_qr_to_matrix *)

\* The generator's output follows the protocol around sentinels at lines s and e
\* (1-based): MATRIX_START, the size N, exactly N rows of exactly N integers,
\* MATRIX_END; and m is the matrix of those rows.
WellFormedAt(lines, s, e, m) ==
    /\ s < e
    /\ lines[s] = START
    /\ lines[e] = END
    /\ IsIntLine(lines[s + 1])
    /\ LET n == IntOf(lines[s + 1][1])
       IN  /\ e - s - 2 = n
           /\ Len(m) = n
           /\ \A k \in 1 .. n :
                 /\ IsRowLine(lines[s + 1 + k])
                 /\ Len(lines[s + 1 + k]) = n
                 /\ m[k] = RowOf(lines[s + 1 + k])

\* C4: a matrix is returned only when the output holds both sentinels and,
\* between them, the declared size N followed by exactly N rows of exactly N
\* integers; otherwise the call fails.  (An empty list, which every caller
\* treats like None, counts as a failure.)
C4_ParserStrict ==
    \A c \in DOMAIN lq_pc :
        (lq_pc[c] \in {"finally", "returned"} /\ lq_ret[c].kind = "matrix"
            /\ lq_ret[c].value # <<>>)
            => \E s \in DOMAIN lq_stdout[c], e \in DOMAIN lq_stdout[c] :
                  WellFormedAt(lq_stdout[c], s, e, lq_ret[c].value)

C8_NoCollision ==
    \A c \in DOMAIN lq_pc :
        /\ lq_pc[c] = "run" => script_file = <<lq_text[c]>>
        /\ lq_exec[c] # <<>> => lq_exec[c] = <<lq_text[c]>>

-----------------------------------------------------------------------------
(* qr_decoder.py: decode_qr_image and main *)

Paths == {"a.png", "b.png"}
Pattern == "*.png"

\* What a path may hold: nothing, a file cv2.imread cannot read, an image on
\* which the detector raises, or an image the detector decodes to `data`
\* ("" when it finds no code).
FileStates ==
    { [kind |-> "missing", data |-> ""],
      [kind |-> "unreadable", data |-> ""],
      [kind |-> "raises", data |-> ""],
      [kind |-> "image", data |-> ""],
      [kind |-> "image", data |-> "hello"],
      [kind |-> "image", data |-> "world"] }

\* os.path.exists(path)
Exists(fs, path) == fs[path].kind # "missing"

\* decode_qr_image (lines 33-68): the list of results, empty when the image
\* cannot be read, when the detector raises, and when it returns no text
DecodeQrImageAnyData(st) ==
    IF st.kind = "image" THEN <<[data |-> st.data, type |-> "QRCODE"]>> ELSE <<>>
DecodeQrImage(st) ==
    IF st.kind = "image" /\ st.data # ""
    THEN <<[data |-> st.data, type |-> "QRCODE"]>>
    ELSE <<>>

\* what decode_qr_image prints about an image it gives up on (lines 47, 67)
DecodeDiagnostics(st, path) ==
    CASE st.kind = "unreadable" -> << <<"Could not read image", path>> >>
      [] st.kind = "raises" -> << <<"Error processing", path>> >>
      [] OTHER -> <<>>

\* lines 152-156
ExitStatus(decoded) == IF decoded = <<>> THEN 1 ELSE 0

\* the orders in which glob.glob may list the files that exist
Listings(fs) ==
    LET present == { q \in Paths : Exists(fs, q) }
    IN  { l \in [1 .. Cardinality(present) -> present] :
            \A i, j \in DOMAIN l : i # j => l[i] # l[j] }

\* lines 104-110: each pattern is replaced by the listing, each path kept
RECURSIVE Expand(_, _)
Expand(images, listing) ==
    IF images = <<>>
    THEN <<>>
    ELSE (IF Head(images) = Pattern THEN listing ELSE <<Head(images)>>)
             \o Expand(Tail(images), listing)

\* lines 104-117
DM_Expand ==
    /\ dm_pc = "expand"
    /\ \E listing \in Listings(dm_fs) :
        /\ image_files' = Expand(dm_images, listing)
        /\ IF image_files' = <<>>
           THEN dm_ret' = 1 /\ dm_pc' = "returned"
           ELSE dm_ret' = dm_ret /\ dm_pc' = "loop"
    /\ UNCHANGED <<dm_images, dm_output, dm_fs, dm_i, all_decoded_text, dm_diag, dm_out_file>>
    /\ UNCHANGED <<mi_vars, lq_vars, sw_vars, tq_vars>>

\* lines 119-143, one iteration
DM_Iterate ==
    /\ dm_pc = "loop"
    /\ dm_i < Len(image_files)
    /\ LET image_path == image_files[dm_i + 1]
           results == DecodeQrImage(dm_fs[image_path])
       IN  IF ~Exists(dm_fs, image_path)
           THEN /\ dm_diag' = Append(dm_diag, <<"File not found", image_path>>)
                /\ UNCHANGED all_decoded_text
           ELSE /\ all_decoded_text' =
                       all_decoded_text \o [k \in DOMAIN results |-> results[k].data]
                /\ dm_diag' = dm_diag \o DecodeDiagnostics(dm_fs[image_path], image_path)
    /\ dm_i' = dm_i + 1
    /\ UNCHANGED <<dm_pc, dm_images, dm_output, dm_fs, image_files, dm_out_file, dm_ret>>
    /\ UNCHANGED <<mi_vars, lq_vars, sw_vars, tq_vars>>

\* lines 145-156: the loop is over; the --output file is written when asked
\* for (open may raise, and nothing catches it), then the status is returned
DM_Finish ==
    /\ dm_pc = "loop"
    /\ dm_i = Len(image_files)
    /\ \/ /\ dm_out_file' = IF dm_output THEN <<all_decoded_text>> ELSE dm_out_file
          /\ dm_ret' = ExitStatus(all_decoded_text)
          /\ dm_pc' = "returned"
       \/ /\ dm_output
          /\ dm_pc' = "raised"
          /\ UNCHANGED <<dm_out_file, dm_ret>>
    /\ UNCHANGED <<dm_images, dm_output, dm_fs, image_files, dm_i, all_decoded_text, dm_diag>>
    /\ UNCHANGED <<mi_vars, lq_vars, sw_vars, tq_vars>>

DM_Init ==
    /\ dm_pc = "expand"
    /\ dm_images \in UNION { [1 .. n -> Paths \cup {Pattern}] : n \in 1 .. MaxArgs }
    /\ dm_output \in BOOLEAN
    /\ dm_fs \in [Paths -> FileStates]
    /\ image_files = <<>>
    /\ dm_i = 0
    /\ all_decoded_text = <<>>
    /\ dm_diag = <<>>
    /\ dm_out_file = <<>>
    /\ dm_ret = -1

\* the decoder's main is not running
DM_Idle ==
    /\ dm_pc = "idle"
    /\ dm_images = <<>>
    /\ dm_output = FALSE
    /\ dm_fs = [q \in Paths |-> [kind |-> "missing", data |-> ""]]
    /\ image_files = <<>>
    /\ dm_i = 0
    /\ all_decoded_text = <<>>
    /\ dm_diag = <<>>
    /\ dm_out_file = <<>>
    /\ dm_ret = -1

-----------------------------------------------------------------------------
(* Properties of the decoder's main *)

\* the path holds an image with a QR code the detector reads
Decodable(path) == dm_fs[path].kind = "image" /\ dm_fs[path].data # ""
IsMissing(path) == dm_fs[path].kind = "missing"
IsSkipped(path) == dm_fs[path].kind \in {"missing", "unreadable", "raises"}

\* C6: the batch returns 1 exactly when no path of the list decoded to a
\* payload; a missing or unreadable path is skipped with a diagnostic and
\* every path of the list is visited; the decoded texts are those of the
\* decodable images, in the order of the list.
C6_BatchStatus ==
    dm_pc = "returned"
        => /\ dm_ret \in {0, 1}
           /\ dm_ret = 1 <=> (\A k \in DOMAIN image_files : ~Decodable(image_files[k]))
           /\ dm_i = Len(image_files)
           /\ LET skipped == SelectSeq(image_files, IsSkipped)
              IN  /\ Len(dm_diag) = Len(skipped)
                  /\ \A k \in DOMAIN skipped :
                        /\ dm_diag[k][2] = skipped[k]
                        /\ dm_diag[k][1] = "File not found" <=> IsMissing(skipped[k])
           /\ LET good == SelectSeq(image_files, Decodable)
              IN  all_decoded_text = [k \in DOMAIN good |-> dm_fs[good[k]].data]

\* one missing path, then one image that decodes: success, with its text only
C6_Witness ==
    /\ dm_pc = "returned"
    /\ image_files = <<"a.png", "b.png">>
    /\ dm_fs["a.png"].kind = "missing"
    /\ dm_fs["b.png"] = [kind |-> "image", data |-> "hello"]
    /\ dm_diag = << <<"File not found", "a.png">> >>
    /\ all_decoded_text = <<"hello">>
    /\ dm_ret = 0

-----------------------------------------------------------------------------
(* The decoder run as a child process: python qr_decoder_opencv.py <file> *)

BANNER == <<"Using OpenCV for QR decoding">>
NO_OPENCV == <<"OpenCV not found!">>
MARKER == <<"No QR codes were successfully decoded.">>
TextLine(data) == <<"Text:", data>>

\* what main() of the decoder prints for the texts it decoded (qr_decoder.py
\* lines 25, 140, 152-154)
DecoderPrints(decoded) ==
    <<BANNER>> \o [k \in DOMAIN decoded |-> TextLine(decoded[k])]
        \o (IF ExitStatus(decoded) = 1 THEN <<MARKER>> ELSE <<>>)

\* The runs of the child process on a file whose codes decode to `decoded`:
\* it runs to its end, or cv2 cannot be imported (qr_decoder.py lines 23-31),
\* or the process cannot be started and prints nothing.  `payloads` is the
\* number of payloads the run returned.
DecoderRuns(decoded) ==
    { [payloads |-> Len(decoded), stdout |-> DecoderPrints(decoded)],
      [payloads |-> 0, stdout |-> <<NO_OPENCV>>],
      [payloads |-> 0, stdout |-> <<>>] }

\* `"No QR codes were successfully decoded" in output`
ContainsMarker(stdout) == \E k \in DOMAIN stdout : stdout[k] = MARKER

-----------------------------------------------------------------------------
(* txt_to_qr_image.py: test_different_sizes *)

\* line 99
Sizes == <<4, 6, 8, 10, 12, 16, 20>>

\* lines 91-97: lua qrcode.lua is run once; on failure the function returns
SW_Generate ==
    /\ sw_pc = "generate"
    /\ \E success \in BOOLEAN : sw_pc' = IF success THEN "loop" ELSE "returned"
    /\ UNCHANGED sw_runs
    /\ UNCHANGED <<mi_vars, lq_vars, dm_vars, tq_vars>>

\* lines 99-115, one iteration: the converter is run, then (when it succeeded)
\* the decoder, whose output alone decides the report
SW_TrySize ==
    /\ sw_pc = "loop"
    /\ Len(sw_runs) < Len(Sizes)
    /\ LET size == Sizes[Len(sw_runs) + 1]
       IN  \/ sw_runs' = Append(sw_runs,
                  [size |-> size, converted |-> FALSE, payloads |-> 0,
                   report |-> "Image conversion failed"])
           \/ \E decoded \in {<<>>, <<"test123">>} :
              \E run \in DecoderRuns(decoded) :
                 sw_runs' = Append(sw_runs,
                    [size |-> size, converted |-> TRUE, payloads |-> run.payloads,
                     report |-> IF ~ContainsMarker(run.stdout)
                                THEN "SUCCESS"
                                ELSE "Failed to decode"])
    /\ UNCHANGED sw_pc
    /\ UNCHANGED <<mi_vars, lq_vars, dm_vars, tq_vars>>

\* the list is exhausted
SW_Return ==
    /\ sw_pc = "loop"
    /\ Len(sw_runs) = Len(Sizes)
    /\ sw_pc' = "returned"
    /\ UNCHANGED sw_runs
    /\ UNCHANGED <<mi_vars, lq_vars, dm_vars, tq_vars>>

SW_Init == sw_pc = "generate" /\ sw_runs = <<>>
SW_Idle == sw_pc = "idle" /\ sw_runs = <<>>

\* C9: the sizes are tried in the order of the list, none skipped, and a size
\* is reported SUCCESS only if the decoder returned a payload for its image.
C9_SuccessMeansPayload ==
    /\ \A k \in DOMAIN sw_runs : sw_runs[k].size = Sizes[k]
    /\ (sw_pc = "returned" /\ sw_runs # <<>>) => Len(sw_runs) = Len(Sizes)
    /\ \A k \in DOMAIN sw_runs :
          sw_runs[k].report = "SUCCESS" => sw_runs[k].payloads >= 1

-----------------------------------------------------------------------------
(* matrix_to_image.py: test_qr_generation *)

\* line 162
TestModuleSize == 12
TestBorder == 4

\* file names, as sequences of characters
QrTestPng == <<"q", "r", "_", "t", "e", "s", "t", ".", "p", "n", "g">>

\* text.replace(' ', '_')
ReplaceSpaces(text) == [k \in DOMAIN text |-> IF text[k] = " " THEN "_" ELSE text[k]]

\* f"qr_{text.replace(' ', '_')}.png" (line 169)
DecodedName(text) == <<"q", "r", "_">> \o ReplaceSpaces(text) \o <<".", "p", "n", "g">>

TextChars == {"t", "e", "s", " "}
TestTexts == UNION { [1 .. n -> TextChars] : n \in 0 .. MaxTextLen }

\* lines 153-158: lua_qr_to_matrix(text); None and the empty matrix end the test
TQ_Generate ==
    /\ tq_pc = "generate"
    /\ \E r \in {RetNone} \cup { ParseOutput(GenOutput(t)) : t \in Texts }
                 \cup {ParseOutput(<<START, <<"0">>, END>>)} :
        /\ tq_matrix' = r
        /\ IF r.kind = "None" \/ r.value = <<>>
           THEN tq_ret' = "False" /\ tq_pc' = "returned"
           ELSE tq_ret' = tq_ret /\ tq_pc' = "render"
    /\ UNCHANGED <<tq_text, tq_stale, tq_written, tq_decoded>>
    /\ UNCHANGED <<mi_vars, lq_vars, dm_vars, sw_vars>>

\* lines 160-165: matrix_to_image(matrix, "qr_test.png", module_size=12, border=4)
TQ_Render ==
    /\ tq_pc = "render"
    /\ LET r == DrawLoop(tq_matrix.value, TestModuleSize, TestBorder, 0,
                         NewImage(ImgSize(Len(tq_matrix.value), TestBorder, TestModuleSize)))
       IN  \/ /\ ~r.raised
              /\ tq_written' = <<[name |-> QrTestPng, image |-> r.image]>>
              /\ tq_pc' = "decode"
           \/ \* IndexError of the loop, or img.save raises
              /\ tq_pc' = "raised"
              /\ UNCHANGED tq_written
    /\ UNCHANGED <<tq_text, tq_stale, tq_matrix, tq_decoded, tq_ret>>
    /\ UNCHANGED <<mi_vars, lq_vars, dm_vars, sw_vars>>

\* lines 167-175: the decoder is run on qr_<text>.png; what lies there is the
\* image just written when the names agree, else a file of an earlier run or
\* nothing
TQ_Decode ==
    /\ tq_pc = "decode"
    /\ LET name == DecodedName(tq_text)
           source == IF name = tq_written[1].name THEN "rendered"
                     ELSE IF tq_stale THEN "stale"
                     ELSE "missing"
           decodings == IF source = "missing" THEN {<<>>} ELSE {<<>>, <<"payload">>}
       IN  /\ tq_decoded' = <<[name |-> name, source |-> source]>>
           /\ \E decoded \in decodings :
              \E run \in DecoderRuns(decoded) :
                 tq_ret' = IF ~ContainsMarker(run.stdout) THEN "True" ELSE "False"
    /\ tq_pc' = "returned"
    /\ UNCHANGED <<tq_text, tq_stale, tq_matrix, tq_written>>
    /\ UNCHANGED <<mi_vars, lq_vars, dm_vars, sw_vars>>

TQ_Init ==
    /\ tq_pc = "generate"
    /\ tq_text \in TestTexts
    /\ tq_stale \in BOOLEAN
    /\ tq_matrix = RetPending
    /\ tq_written = <<>>
    /\ tq_decoded = <<>>
    /\ tq_ret = "none"

TQ_Idle ==
    /\ tq_pc = "idle"
    /\ tq_text = <<>>
    /\ tq_stale = FALSE
    /\ tq_matrix = RetPending
    /\ tq_written = <<>>
    /\ tq_decoded = <<>>
    /\ tq_ret = "none"

\* C10: the file handed to the decoder is the file matrix_to_image wrote in
\* this run, so a success is a payload decoded from the image just rendered.
C10_DecodesRenderedFile ==
    tq_decoded # <<>>
        => /\ tq_written # <<>>
           /\ tq_decoded[1].name = tq_written[1].name
           /\ tq_decoded[1].source = "rendered"

-----------------------------------------------------------------------------
(* Specifications *)

InitRender == MI_Init /\ LQ_Idle /\ DM_Idle /\ SW_Idle /\ TQ_Idle
NextRender == MI_Validate \/ MI_Draw \/ MI_Save
SpecRender == InitRender /\ [][NextRender]_vars

InitParse == MI_Idle /\ LQ_Init({1}, Texts) /\ DM_Idle /\ SW_Idle /\ TQ_Idle
NextParse ==
    \/ \E c \in DOMAIN lq_pc : LQ_WriteScript(c, WriteOutcomes)
    \/ \E c \in DOMAIN lq_pc : LQ_RunLua(c, FALSE)
    \/ \E c \in DOMAIN lq_pc : LQ_Parse(c)
    \/ \E c \in DOMAIN lq_pc : LQ_Finally(c)
SpecParse == InitParse /\ [][NextParse]_vars

\* calls running concurrently, on a file system that does not fail, with
\* qrencode.lua as the generator
InitConc == MI_Idle /\ LQ_Init(1 .. NumCallers, Texts) /\ DM_Idle /\ SW_Idle /\ TQ_Idle
NextConc ==
    \/ \E c \in DOMAIN lq_pc : LQ_WriteScript(c, {"ok"})
    \/ \E c \in DOMAIN lq_pc : LQ_RunLua(c, TRUE)
    \/ \E c \in DOMAIN lq_pc : LQ_Parse(c)
    \/ \E c \in DOMAIN lq_pc : LQ_Finally(c)
SpecConc == InitConc /\ [][NextConc]_vars

InitDecode == MI_Idle /\ LQ_Idle /\ DM_Init /\ SW_Idle /\ TQ_Idle
NextDecode == DM_Expand \/ DM_Iterate \/ DM_Finish
SpecDecode == InitDecode /\ [][NextDecode]_vars

InitSweep == MI_Idle /\ LQ_Idle /\ DM_Idle /\ SW_Init /\ TQ_Idle
NextSweep == SW_Generate \/ SW_TrySize \/ SW_Return
SpecSweep == InitSweep /\ [][NextSweep]_vars

InitPipeline == MI_Idle /\ LQ_Idle /\ DM_Idle /\ SW_Idle /\ TQ_Init
NextPipeline == TQ_Generate \/ TQ_Render \/ TQ_Decode
SpecPipeline == InitPipeline /\ [][NextPipeline]_vars

=============================================================================
